---- MODULE Spec2Model ----
(***************************************************************************)
(* A model of vouch-proxy's HTTP handlers (handlers/handlers.go):          *)
(*   /login    LoginHandler            /auth     CallbackHandler           *)
(*   /logout   LogoutHandler           /validate ValidateRequestHandler    *)
(* and of the policy decision VerifyUser.                                  *)
(*                                                                         *)
(* One browser talks to one vouch-proxy process.  The browser holds two    *)
(* cookies: the gorilla CookieStore session cookie (session.Values, kept   *)
(* client side) and the proof cookie carrying the JWT.  Every handler is   *)
(* one atomic action; its inputs (query parameters, headers, whether the   *)
(* session cookie decodes, the provider's answer, the random source) are   *)
(* drawn with \E.  The last request and its response are kept in `req`     *)
(* and `resp` so that properties of a handler can be stated.               *)
(*                                                                         *)
(* Strings the handlers only compare are TLA+ strings.  Substring tests    *)
(* (strings.Contains, strings.HasSuffix) are decided by the table          *)
(* StrContains over the strings of the model.                              *)
(***************************************************************************)
EXTENDS Naturals, Integers, Sequences, FiniteSets, TLC

VARIABLES
    cfg,              \* cfg.Cfg / cfg.GenOAuth: the configuration read by the handlers
    oauthRedirectURL, \* cfg.OAuthClient.RedirectURL (written by loginURL)
    sessMaxAge,       \* sessstore.Options.MaxAge (written by LogoutHandler)
    nTestURLs,        \* len(cfg.Cfg.TestURLs) (appended to by redirect302)
    session,          \* the browser's session cookie: session.Values
    proofCookie,      \* the browser's proof cookie: a JWT string, EmptyJWT if none
    logins,           \* history: per URL, /login requests since the session
                      \*   started or since the last callback that redirected to it
    req,              \* the last request (handler and inputs)
    resp,             \* the last response
    polUser,          \* input of the last stand-alone VerifyUser call
    polResult,        \* its result
    tasks,            \* the /login requests being served concurrently (one
                      \*   goroutine each): how far each has got, its request
                      \*   and what it does with the session it was sent
    retry,            \* history: the last request was a /login for the stored
                      \*   destination, made right after a callback that failed
    lockedAtLogout    \* history: the destinations that were locked out when
                      \*   the /logout just served, or served right before the
                      \*   /login just served, arrived

vars == <<cfg, oauthRedirectURL, sessMaxAge, nTestURLs, session, proofCookie,
          logins, req, resp, polUser, polResult, tasks, retry,
          lockedAtLogout>>

(***************************************************************************)
(* Bounds of the model.                                                    *)
(***************************************************************************)
\* /login is not taken for a URL whose failure counter has reached this value.
MaxFailCount == 3
\* redirect302 in testing mode is not taken once cfg.Cfg.TestURLs is this long.
MaxTestURLs == 2
\* /login is not taken for the second URL once it was served this often.
MaxOtherLogins == 1
\* The number of /login requests that are served concurrently.
NumTasks == 3

(***************************************************************************)
(* Sequences as the code walks them.                                       *)
(***************************************************************************)
SeqToSet(s) == {s[i] : i \in 1..Len(s)}

\* `for _, wl := range list { if x == wl { return true } }`
RECURSIVE FoundIn(_, _, _)
FoundIn(x, list, i) ==
    IF i > Len(list) THEN FALSE
    ELSE IF x = list[i] THEN TRUE
    ELSE FoundIn(x, list, i + 1)

(***************************************************************************)
(* The strings of the model and the substring relation between them.       *)
(***************************************************************************)
DomainA == "a.com"
DomainB == "b.com"
HostA == "vouch.a.com"
HostB == "vouch.b.com"
HostEvil == "a.com.evil.org"
HostOther == "other.org"
Hosts == {HostA, HostB, HostEvil, HostOther}
RedirectA == "https://vouch.a.com/auth"
RedirectB == "https://vouch.b.com/auth"

\* strings.Contains(s, sub) on the strings above
StrContains(s, sub) ==
    \/ sub = ""
    \/ s = sub
    \/ <<s, sub>> \in { <<HostA, DomainA>>, <<HostB, DomainB>>, <<HostEvil, DomainA>>,
                        <<RedirectA, DomainA>>, <<RedirectB, DomainB>>,
                        <<RedirectA, HostA>>, <<RedirectB, HostB>> }

\* s == d || strings.HasSuffix(s, "." + d)
IsOrHasDotSuffix(s, d) ==
    \/ s = d
    \/ <<s, d>> \in { <<HostA, DomainA>>, <<HostB, DomainB>> }

\* The part of an e-mail address after its single "@"; "" when the address does
\* not split into exactly two parts.
EmailDomain(email) ==
    CASE email = "alice@a.com" -> DomainA
      [] email = "bob@b.com" -> DomainB
      [] email = "eve@other.org" -> HostOther
      [] OTHER -> ""
Emails == {"alice@a.com", "bob@b.com", "eve@other.org", "not-an-email"}

(***************************************************************************)
(* pkg/domains (a collaborator of the handlers).                           *)
(***************************************************************************)
\* domains.Matches(s): the first configured domain that s equals or is a
\* subdomain of, "" if none.
RECURSIVE MatchesFrom(_, _, _)
MatchesFrom(s, doms, i) ==
    IF i > Len(doms) THEN ""
    ELSE IF IsOrHasDotSuffix(s, doms[i]) THEN doms[i]
    ELSE MatchesFrom(s, doms, i + 1)

Matches(s) == MatchesFrom(s, cfg.Domains, 1)

\* domains.IsUnderManagement(email)
IsUnderManagement(email) ==
    /\ EmailDomain(email) # ""
    /\ Matches(EmailDomain(email)) # ""

(***************************************************************************)
(* structs.User, and the policy decision.                                  *)
(***************************************************************************)
Usernames == {"alice", "bob", ""}
TeamLists == { <<>>, <<"dev">>, <<"ops", "dev">> }
Users == [Username : Usernames, Email : Emails, TeamMemberships : TeamLists]

\* `for _, team := range user.TeamMemberships { for _, wl := range TeamWhiteList {...} }`
RECURSIVE TeamFound(_, _, _)
TeamFound(teams, whitelist, i) ==
    IF i > Len(teams) THEN FALSE
    ELSE IF FoundIn(teams[i], whitelist, 1) THEN TRUE
    ELSE TeamFound(teams, whitelist, i + 1)

\* A mutant of VerifyUser: the team whitelist is consulted before the username
\* whitelist.
VerifyUserTeamFirst(user) ==
    IF cfg.AllowAllUsers THEN [ok |-> TRUE, err |-> "nil", log |-> "allowall"]
    ELSE IF Len(cfg.TeamWhiteList) # 0 THEN
        IF TeamFound(user.TeamMemberships, cfg.TeamWhiteList, 1)
        THEN [ok |-> TRUE, err |-> "nil", log |-> "team"]
        ELSE [ok |-> FALSE, err |-> "team", log |-> "team"]
    ELSE IF Len(cfg.WhiteList) # 0 THEN
        IF FoundIn(user.Username, cfg.WhiteList, 1)
        THEN [ok |-> TRUE, err |-> "nil", log |-> "whitelist"]
        ELSE [ok |-> FALSE, err |-> "whitelist", log |-> "whitelist"]
    ELSE IF Len(cfg.Domains) # 0 THEN
        IF IsUnderManagement(user.Email)
        THEN [ok |-> TRUE, err |-> "nil", log |-> "domains"]
        ELSE [ok |-> FALSE, err |-> "domains", log |-> "domains"]
    ELSE [ok |-> TRUE, err |-> "nil", log |-> "default"]

\* VerifyUser(u) (bool, error): `ok` and `err` are the two results ("nil" or the
\* tier whose error is returned); `log` is the tier named by the log line.
VerifyUser(user) ==
    IF cfg.AllowAllUsers THEN [ok |-> TRUE, err |-> "nil", log |-> "allowall"]
    ELSE IF Len(cfg.WhiteList) # 0 THEN
        IF FoundIn(user.Username, cfg.WhiteList, 1)
        THEN [ok |-> TRUE, err |-> "nil", log |-> "whitelist"]
        ELSE [ok |-> FALSE, err |-> "whitelist", log |-> "whitelist"]
    ELSE IF Len(cfg.TeamWhiteList) # 0 THEN
        IF TeamFound(user.TeamMemberships, cfg.TeamWhiteList, 1)
        THEN [ok |-> TRUE, err |-> "nil", log |-> "team"]
        ELSE [ok |-> FALSE, err |-> "team", log |-> "team"]
    ELSE IF Len(cfg.Domains) # 0 THEN
        IF IsUnderManagement(user.Email)
        THEN [ok |-> TRUE, err |-> "nil", log |-> "domains"]
        ELSE [ok |-> FALSE, err |-> "domains", log |-> "domains"]
    ELSE [ok |-> TRUE, err |-> "nil", log |-> "default"]

(***************************************************************************)
(* JWT strings and pkg/jwtmanager (a collaborator of the handlers).         *)
(* A JWT string is modelled by what parsing it yields: `kind` is            *)
(*   "empty"    the empty string                                           *)
(*   "garbage"  does not parse, or its signature does not verify           *)
(*   "expired"  parses, but is past its expiry                             *)
(*   "noclaims" parses, but its claims do not map to VouchClaims           *)
(*   "ok"       parses to `claims`                                         *)
(***************************************************************************)
\* A custom claim value: a []interface{} of strings, a string, a number, a map.
ClaimSeqAB == [t |-> "seq", elems |-> <<"a", "b">>]
ClaimStr == [t |-> "str", s |-> "admin"]
ClaimNum == [t |-> "num", n |-> 7]
ClaimMap == [t |-> "map"]

ClaimAbsent == [t |-> "absent"]
ClaimNames == {"groups", "role"}
\* structs.CustomClaims: claim name -> value, ClaimAbsent for a name not in the map
NoCustomClaims == [c \in ClaimNames |-> ClaimAbsent]

ZeroClaims ==
    [Username |-> "", Sites |-> <<>>, CustomClaims |-> NoCustomClaims,
     PAccessToken |-> "", PIdToken |-> ""]

EmptyJWT == [kind |-> "empty", claims |-> ZeroClaims]
GarbageJWT == [kind |-> "garbage", claims |-> ZeroClaims]

\* jwtmanager.ParseTokenString(jwt) followed by jwtmanager.PTokenClaims(parsed)
ParseTokenString(jwt) ==
    IF jwt.kind \in {"empty", "garbage", "expired"}
    THEN [err |-> "parse", claims |-> ZeroClaims]
    ELSE [err |-> "nil", claims |-> jwt.claims]

PTokenClaims(jwt) ==
    IF jwt.kind = "noclaims"
    THEN [err |-> "claims", claims |-> ZeroClaims]
    ELSE [err |-> "nil", claims |-> jwt.claims]

\* jwtmanager.SiteInClaims(site, claims)
RECURSIVE SiteInFrom(_, _, _)
SiteInFrom(site, sites, i) ==
    IF i > Len(sites) THEN FALSE
    ELSE IF StrContains(site, sites[i]) THEN TRUE
    ELSE SiteInFrom(site, sites, i + 1)

SiteInClaims(site, claims) == SiteInFrom(site, claims.Sites, 1)

\* jwtmanager.CreateUserTokenString(user, customClaims, ptokens)
CreateUserTokenString(user, customClaims, ptokens) ==
    [kind |-> "ok",
     claims |-> [Username |-> user.Username, Sites |-> cfg.Domains,
                 CustomClaims |-> customClaims,
                 PAccessToken |-> ptokens.PAccessToken,
                 PIdToken |-> ptokens.PIdToken]]

\* ClaimsFromJWT(jwt) (jwtmanager.VouchClaims, error)
ClaimsFromJWT(jwt) ==
    IF ParseTokenString(jwt).err # "nil"
    THEN [err |-> ParseTokenString(jwt).err, claims |-> ZeroClaims]
    ELSE IF PTokenClaims(jwt).err # "nil"
    THEN [err |-> PTokenClaims(jwt).err, claims |-> PTokenClaims(jwt).claims]
    ELSE [err |-> "nil", claims |-> PTokenClaims(jwt).claims]

(***************************************************************************)
(* The /validate request and FindJWT.                                      *)
(* An Authorization header value is kept split at its first space:         *)
(* `scheme` is the text before it, `space` whether there is one, `rest`    *)
(* the text after it (a JWT string).                                       *)
(***************************************************************************)
NoAuth == [scheme |-> "", space |-> FALSE, rest |-> EmptyJWT]

\* auth != ""
AuthNotEmpty(auth) == auth.scheme # "" \/ auth.space

\* cookie.Cookie(r): the proof cookie's value, an error when there is none
Cookie(r) ==
    IF r.cookie.kind = "empty"
    THEN [jwt |-> EmptyJWT, err |-> "nocookie"]
    ELSE [jwt |-> r.cookie, err |-> "nil"]

\* FindJWT(r): cookie, JWT header, Authorization header, query string
FindJWT(r) ==
    IF Cookie(r).err = "nil" THEN Cookie(r).jwt
    ELSE IF r.hdrJWT.kind # "empty" THEN r.hdrJWT
    ELSE IF AuthNotEmpty(r.auth) /\ r.auth.space THEN r.auth.rest
    ELSE IF r.query.kind # "empty" THEN r.query
    ELSE EmptyJWT

(***************************************************************************)
(* Requests and responses.                                                 *)
(***************************************************************************)
NoTarget == [kind |-> "none", url |-> "", state |-> "", redirect |-> "", opts |-> FALSE]
NoUser == [Username |-> "", Email |-> "", TeamMemberships |-> <<>>]
NoPTokens == [PAccessToken |-> "", PIdToken |-> ""]

\* A request: `handler` and the inputs the handlers read.
\*   url, state, error   query parameters of /login, /auth, /logout
\*   badSession          the session cookie sent does not decode (sessstore.Get fails)
\*   rand                the random source: a raw nonce, or "error"
\*   provider            the provider's answer to GetUserInfo
\*   host, cookie, hdrJWT, auth, query   what /validate reads
BaseReq(h) ==
    [handler |-> h, url |-> "", state |-> "", error |-> "", badSession |-> FALSE,
     rand |-> "",
     provider |-> [err |-> FALSE, user |-> NoUser,
                   customClaims |-> [c \in ClaimNames |-> ClaimAbsent],
                   ptokens |-> NoPTokens],
     host |-> "", cookie |-> EmptyJWT,
     hdrJWT |-> EmptyJWT, auth |-> NoAuth, query |-> EmptyJWT]

\* A response.
\*   status    the HTTP status; 0 when the handler panicked and nothing was sent
\*   page      what was written: "index" (renderIndex), "error" (http.Error),
\*             "ok200", "redirect" (http.Redirect), "" (nothing)
\*   msg       which message the page carries
\*   target    where redirect302 was asked to send the browser
\*   headers   the headers added with w.Header().Add: <<name, value>> pairs
\*   cookie    "set", "clear" or "keep": what was done to the proof cookie
\*   token     the JWT put in the proof cookie or shown on the page
\*   userinfo  "no", "error" or "ok": whether GetUserInfo was called, and its result
\*   verify    "no", "deny" or "permit": whether VerifyUser was called, and its result
\*   user      the identity GetUserInfo produced
\*   saved     whether session.Save was called
BaseResp(h) ==
    [handler |-> h, status |-> 200, page |-> "", msg |-> "", target |-> NoTarget,
     headers |-> {}, cookie |-> "keep", token |-> EmptyJWT, userinfo |-> "no",
     verify |-> "no", user |-> NoUser, saved |-> FALSE]

\* A header value is the sequence of the pieces it is concatenated from.
Str(s) == IF s = "" THEN <<>> ELSE <<s>>

HdrUser == "X-Vouch-User"
HdrSuccess == "X-Vouch-Success"

\* renderIndex(w, msg)
RenderIndex(r, msg) == [r EXCEPT !.page = "index", !.msg = msg]

\* ok200(w, r)
Ok200(r) == [r EXCEPT !.page = "ok200"]

\* A mutant of error401: the proof cookie is left in place.
Error401KeepCookie(r, msg) ==
    [r EXCEPT !.status = 401, !.page = "error", !.msg = msg]

\* error401(w, r, ae)
Error401(r, msg) ==
    [r EXCEPT !.cookie = "clear", !.status = 401, !.page = "error", !.msg = msg]

\* w.Header().Add(name, value)
AddHeader(r, name, value) == [r EXCEPT !.headers = @ \cup {<<name, value>>}]

(***************************************************************************)
(* ValidateRequestHandler: /validate                                       *)
(***************************************************************************)
\* strings.Join(strs, ",") with strs[i] = fmt.Sprintf("\"%s\"", val[i])
RECURSIVE QuoteJoin(_, _)
QuoteJoin(elems, i) ==
    IF i > Len(elems) THEN <<>>
    ELSE (IF i > 1 THEN <<",">> ELSE <<>>) \o <<"\"", elems[i], "\"">>
         \o QuoteJoin(elems, i + 1)

\* fmt.Sprint(v) for a value that is not a []interface{}
Sprint(v) ==
    CASE v.t = "str" -> Str(v.s)
      [] v.t = "num" -> <<"7">>
      [] OTHER -> <<"map[", "k", ":", "v", "]">>

\* The header value written for a custom claim (lines 229-255).
ClaimHeaderValue(v) ==
    IF v.t = "seq" THEN QuoteJoin(v.elems, 1) ELSE Sprint(v)

\* Lines 218-259: the headers for the configured claims found in the token.
ClaimHeaders(claims) ==
    IF \A c \in ClaimNames : cfg.HeadersClaims[c] = "" THEN {}
    ELSE { <<cfg.HeadersClaims[k], ClaimHeaderValue(claims.CustomClaims[k])>> :
             k \in { c \in ClaimNames : /\ claims.CustomClaims[c] # ClaimAbsent
                                        /\ cfg.HeadersClaims[c] # "" } }

\* Lines 264-274: the access-token and ID-token headers.
TokenHeaders(claims) ==
    (IF cfg.HeadersAccessToken # "" /\ claims.PAccessToken # ""
     THEN {<<cfg.HeadersAccessToken, Str(claims.PAccessToken)>>} ELSE {})
    \cup
    (IF cfg.HeadersIDToken # "" /\ claims.PIdToken # ""
     THEN {<<cfg.HeadersIDToken, Str(claims.PIdToken)>>} ELSE {})

\* Lines 218-286: the answer for claims that passed every check.
ValidateSuccess(claims) ==
    LET r0 == BaseResp("validate")
        r1 == [r0 EXCEPT !.headers = ClaimHeaders(claims)
                                       \cup {<<HdrUser, Str(claims.Username)>>,
                                             <<HdrSuccess, Str("true")>>}
                                       \cup TokenHeaders(claims)]
    IN  IF cfg.Testing THEN RenderIndex(r1, "user authorized")
        ELSE Ok200(r1)

\* A mutant of ValidateResponse: the Host is not checked against the token's sites.
ValidateResponseNoSiteCheck(r) ==
    LET jwt == FindJWT(r)
        parsed == ClaimsFromJWT(jwt)
        r0 == BaseResp("validate")
    IN  IF jwt.kind = "empty" THEN
            IF cfg.PublicAccess
            THEN Ok200(AddHeader(r0, HdrUser, <<>>))
            ELSE Error401(r0, "no jwt found in request")
        ELSE IF parsed.err # "nil" THEN
            IF ~cfg.PublicAccess
            THEN Error401(r0, parsed.err)
            ELSE AddHeader(r0, HdrUser, <<>>)
        ELSE IF parsed.claims.Username = "" THEN
            IF ~cfg.PublicAccess
            THEN Error401(r0, "no Username found in jwt")
            ELSE AddHeader(r0, HdrUser, <<>>)
        ELSE ValidateSuccess(parsed.claims)

\* A mutant of ValidateResponse: in public-access mode a token that fails the
\* username or site check still has its username put in the identity header.
ValidateResponseLeaky(r) ==
    LET jwt == FindJWT(r)
        parsed == ClaimsFromJWT(jwt)
        r0 == BaseResp("validate")
    IN  IF jwt.kind = "empty" THEN
            IF cfg.PublicAccess
            THEN Ok200(AddHeader(r0, HdrUser, <<>>))
            ELSE Error401(r0, "no jwt found in request")
        ELSE IF parsed.err # "nil" THEN
            IF ~cfg.PublicAccess
            THEN Error401(r0, parsed.err)
            ELSE AddHeader(r0, HdrUser, <<>>)
        ELSE IF parsed.claims.Username = "" THEN
            IF ~cfg.PublicAccess
            THEN Error401(r0, "no Username found in jwt")
            ELSE AddHeader(r0, HdrUser, <<>>)
        ELSE IF ~cfg.AllowAllUsers /\ ~SiteInClaims(r.host, parsed.claims) THEN
            IF ~cfg.PublicAccess
            THEN Error401(r0, "Host not authorized")
            ELSE AddHeader(r0, HdrUser, Str(parsed.claims.Username))
        ELSE ValidateSuccess(parsed.claims)

\* ValidateRequestHandler(w, r): the response to the /validate request r.
ValidateResponse(r) ==
    LET jwt == FindJWT(r)
        parsed == ClaimsFromJWT(jwt)
        r0 == BaseResp("validate")
    IN  IF jwt.kind = "empty" THEN
            IF cfg.PublicAccess
            THEN Ok200(AddHeader(r0, HdrUser, <<>>))
            ELSE Error401(r0, "no jwt found in request")
        ELSE IF parsed.err # "nil" THEN
            IF ~cfg.PublicAccess
            THEN Error401(r0, parsed.err)
            ELSE AddHeader(r0, HdrUser, <<>>)
        ELSE IF parsed.claims.Username = "" THEN
            IF ~cfg.PublicAccess
            THEN Error401(r0, "no Username found in jwt")
            ELSE AddHeader(r0, HdrUser, <<>>)
        ELSE IF ~cfg.AllowAllUsers /\ ~SiteInClaims(r.host, parsed.claims) THEN
            IF ~cfg.PublicAccess
            THEN Error401(r0, "Host not authorized")
            ELSE AddHeader(r0, HdrUser, <<>>)
        ELSE ValidateSuccess(parsed.claims)

(***************************************************************************)
(* The session: session.Values, a map[interface{}]interface{}.             *)
(* The handlers use the keys "state" and "requestedURL" and, for the       *)
(* failure counters, the requested URL itself.                             *)
(***************************************************************************)
URL1 == "https://app.a.com/page"
URL2 == "https://app.a.com/other"
URLs == {URL1, URL2, "state", "requestedURL"}
SessionKeys == {"state", "requestedURL"} \cup URLs

Nil == [t |-> "nil"]
StrV(s) == [t |-> "str", s |-> s]
IntV(n) == [t |-> "int", n |-> n]

\* A mutant of EmptySession: a new session starts with an empty string as nonce.
EmptySessionWithState == [k \in SessionKeys |-> IF k = "state" THEN StrV("") ELSE Nil]

\* A new session: no entries.
EmptySession == [k \in SessionKeys |-> Nil]

\* sessstore.Get(r, name): the session of the request's cookie; a new session and
\* an error when the cookie does not decode.
SessionGet(q) ==
    IF q.badSession THEN [session |-> EmptySession, err |-> "decode"]
    ELSE [session |-> session, err |-> "nil"]

(***************************************************************************)
(* generateStateNonce                                                      *)
(***************************************************************************)
RawNonces == {"n1", "n-2_"}
Nonces == {"n1", "n2"}

\* regExJustAlphaNum.ReplaceAllString(state, "")
StripNonAlphaNum(raw) ==
    CASE raw = "n-2_" -> "n2"
      [] OTHER -> raw

\* A mutant of GenerateStateNonce: the nonce is always the same.
GenerateStateNonceFixed(rand) == [state |-> "n1", err |-> "nil"]

\* generateStateNonce() (string, error); rand is the outcome of
\* securerandom.URLBase64InBytes: a raw string or "error".
GenerateStateNonce(rand) ==
    IF rand = "error" THEN [state |-> "", err |-> "rand"]
    ELSE [state |-> StripNonAlphaNum(rand), err |-> "nil"]

(***************************************************************************)
(* loginURL and redirect302                                                *)
(***************************************************************************)
\* Lines 93-99: the first of cfg.GenOAuth.RedirectURLs that contains domain,
\* `cur` if there is none.
RECURSIVE RedirectFor(_, _, _)
RedirectFor(domain, cur, i) ==
    IF i > Len(cfg.RedirectURLs) THEN cur
    ELSE IF StrContains(cfg.RedirectURLs[i], domain) THEN cfg.RedirectURLs[i]
    ELSE RedirectFor(domain, cur, i + 1)

\* The value of cfg.OAuthClient.RedirectURL after loginURL(r, state).
LoginRedirectURL(q) ==
    IF cfg.Provider \in {"indieauth", "adfs"} THEN oauthRedirectURL
    ELSE RedirectFor(Matches(q.host), oauthRedirectURL, 1)

\* loginURL(r, state): cfg.OAuthClient.AuthCodeURL(state, ...)
LoginURL(q, state) ==
    [kind |-> "provider", url |-> "", state |-> state,
     redirect |-> LoginRedirectURL(q),
     opts |-> (cfg.Provider = "indieauth" \/ cfg.OAuthopts)]

\* A mutant of RequestedTarget: the browser is always sent to the first URL.
RequestedTargetFixed(url) ==
    [kind |-> "url", url |-> URL1, state |-> "", redirect |-> "", opts |-> FALSE]

\* The target of redirect302(w, r, requestedURL).
RequestedTarget(url) ==
    [kind |-> "url", url |-> url, state |-> "", redirect |-> "", opts |-> FALSE]

\* redirect302(w, r, rURL)
Redirect302(r, target) ==
    IF cfg.Testing
    THEN RenderIndex([r EXCEPT !.target = target], "302 redirect to")
    ELSE [r EXCEPT !.status = 302, !.page = "redirect", !.target = target]

\* What a handler leaves behind: its response, the browser's two cookies, and
\* the two process-wide values it may write.  `appended` says whether
\* redirect302 appended to cfg.Cfg.TestURLs.
Outcome(r, sess, cookie, redirect, maxAge) ==
    [resp |-> r, session |-> sess, proofCookie |-> cookie,
     oauthRedirectURL |-> redirect, sessMaxAge |-> maxAge,
     appended |-> (cfg.Testing /\ r.target.kind # "none")]

\* A handler that panics: net/http recovers, nothing is sent, nothing is saved.
\* r is the response as far as the handler had prepared it.
Panic(r) ==
    Outcome([r EXCEPT !.status = 0, !.page = "panic", !.cookie = "keep",
                      !.token = EmptyJWT, !.headers = {}, !.saved = FALSE],
            session, proofCookie, oauthRedirectURL, sessMaxAge)

(***************************************************************************)
(* LoginHandler: /login                                                    *)
(***************************************************************************)
\* A mutant of LoginOutcome: the loop guard lets a third redirect through.
LoginOutcomeLateGuard(q) ==
    LET sess0 == SessionGet(q).session
        gen == GenerateStateNonce(q.rand)
        \* line 356
        sess1 == [sess0 EXCEPT !["state"] = StrV(gen.state)]
        \* line 372
        sess2 == [sess1 EXCEPT !["requestedURL"] = StrV(q.url)]
        \* line 343
        r0 == [BaseResp("login") EXCEPT !.cookie = "clear"]
    IN  IF q.url = "" THEN
            Outcome(RenderIndex(r0, "no destination URL requested"),
                    session, EmptyJWT, oauthRedirectURL, sessMaxAge)
        \* line 378: session.Values[requestedURL].(int)
        ELSE IF sess2[q.url] # Nil /\ sess2[q.url].t # "int" THEN Panic(r0)
        ELSE
            LET failcount == (IF sess2[q.url] # Nil THEN sess2[q.url].n ELSE 0) + 1
                sess3 == [sess2 EXCEPT ![q.url] = IntV(failcount)]
                r1 == [r0 EXCEPT !.saved = TRUE]
            IN  IF failcount > 3 THEN
                    Outcome(RenderIndex(r1, "too many redirects"),
                            sess3, EmptyJWT, oauthRedirectURL, sessMaxAge)
                ELSE
                    Outcome(Redirect302(r1, LoginURL(q, gen.state)),
                            sess3, EmptyJWT, LoginRedirectURL(q), sessMaxAge)

\* LoginHandler(w, r) for the request q.
LoginOutcome(q) ==
    LET sess0 == SessionGet(q).session
        gen == GenerateStateNonce(q.rand)
        \* line 356
        sess1 == [sess0 EXCEPT !["state"] = StrV(gen.state)]
        \* line 372
        sess2 == [sess1 EXCEPT !["requestedURL"] = StrV(q.url)]
        \* line 343
        r0 == [BaseResp("login") EXCEPT !.cookie = "clear"]
    IN  IF q.url = "" THEN
            Outcome(RenderIndex(r0, "no destination URL requested"),
                    session, EmptyJWT, oauthRedirectURL, sessMaxAge)
        \* line 378: session.Values[requestedURL].(int)
        ELSE IF sess2[q.url] # Nil /\ sess2[q.url].t # "int" THEN Panic(r0)
        ELSE
            LET failcount == (IF sess2[q.url] # Nil THEN sess2[q.url].n ELSE 0) + 1
                sess3 == [sess2 EXCEPT ![q.url] = IntV(failcount)]
                r1 == [r0 EXCEPT !.saved = TRUE]
            IN  IF failcount > 2 THEN
                    Outcome(RenderIndex(r1, "too many redirects"),
                            sess3, EmptyJWT, oauthRedirectURL, sessMaxAge)
                ELSE
                    Outcome(Redirect302(r1, LoginURL(q, gen.state)),
                            sess3, EmptyJWT, LoginRedirectURL(q), sessMaxAge)

(***************************************************************************)
(* CallbackHandler: /auth                                                  *)
(***************************************************************************)
\* What the provider answers to GetUserInfo: an error, or an identity with its
\* custom claims and tokens.
UserAlice == [Username |-> "alice", Email |-> "alice@a.com", TeamMemberships |-> <<"dev">>]
UserBob == [Username |-> "bob", Email |-> "bob@b.com", TeamMemberships |-> <<>>]
ProviderError ==
    [err |-> TRUE, user |-> NoUser, customClaims |-> NoCustomClaims, ptokens |-> NoPTokens]
ProviderAnswers ==
    { ProviderError,
      [err |-> FALSE, user |-> UserAlice,
       customClaims |-> [NoCustomClaims EXCEPT !["groups"] = ClaimSeqAB],
       ptokens |-> [PAccessToken |-> "at", PIdToken |-> "idt"]],
      [err |-> FALSE, user |-> UserBob, customClaims |-> NoCustomClaims,
       ptokens |-> NoPTokens] }

\* The provider is asked only when the handler reaches getUserInfo: for a
\* callback that stops before, the answer recorded is NoAnswer.
NoAnswer ==
    [err |-> FALSE, user |-> NoUser, customClaims |-> NoCustomClaims, ptokens |-> NoPTokens]

\* A mutant of CallbackOutcome: the state nonce is not compared.
CallbackOutcomeNoStateCheck(q) ==
    LET got == SessionGet(q)
        sess == got.session
        r0 == BaseResp("auth")
        keep(r) == Outcome(r, session, proofCookie, oauthRedirectURL, sessMaxAge)
    IN  IF got.err # "nil" THEN
            keep([r0 EXCEPT !.status = 500, !.page = "error", !.msg = "session"])
        ELSE IF q.error # "" THEN
            keep(RenderIndex([r0 EXCEPT !.status = 403], "FORBIDDEN"))
        ELSE IF q.provider.err THEN
            keep([r0 EXCEPT !.status = 400, !.page = "error", !.msg = "userinfo",
                            !.userinfo = "error"])
        ELSE
            LET r1 == [r0 EXCEPT !.userinfo = "ok", !.user = q.provider.user]
                v == VerifyUser(q.provider.user)
            IN  IF sess["requestedURL"].t # "str" THEN Panic(r1)
                ELSE
                    LET requestedURL == sess["requestedURL"].s
                    IN  IF ~v.ok THEN
                            keep(RenderIndex([r1 EXCEPT !.verify = "deny"],
                                             IF requestedURL # ""
                                             THEN "not authorized, try again link"
                                             ELSE "not authorized"))
                        ELSE
                            LET token == CreateUserTokenString(q.provider.user,
                                             q.provider.customClaims, q.provider.ptokens)
                                r2 == [r1 EXCEPT !.verify = "permit", !.cookie = "set",
                                                 !.token = token]
                            IN  IF requestedURL # "" THEN
                                    Outcome(Redirect302([r2 EXCEPT !.saved = TRUE],
                                                        RequestedTarget(requestedURL)),
                                            [sess EXCEPT !["requestedURL"] = StrV(""),
                                                         ![requestedURL] = IntV(0)],
                                            token, oauthRedirectURL, sessMaxAge)
                                ELSE
                                    Outcome(RenderIndex(r2, "token"),
                                            session, token, oauthRedirectURL, sessMaxAge)

\* A mutant of CallbackOutcome: the provider's error is looked at before the
\* state nonce.
CallbackOutcomeErrorFirst(q) ==
    LET got == SessionGet(q)
        sess == got.session
        r0 == BaseResp("auth")
        keep(r) == Outcome(r, session, proofCookie, oauthRedirectURL, sessMaxAge)
    IN  IF got.err # "nil" THEN
            keep([r0 EXCEPT !.status = 500, !.page = "error", !.msg = "session"])
        ELSE IF q.error # "" THEN
            keep(RenderIndex([r0 EXCEPT !.status = 403], "FORBIDDEN"))
        ELSE IF sess["state"] # StrV(q.state) THEN
            keep(RenderIndex(r0, "Invalid session state"))
        ELSE IF q.provider.err THEN
            keep([r0 EXCEPT !.status = 400, !.page = "error", !.msg = "userinfo",
                            !.userinfo = "error"])
        ELSE
            LET r1 == [r0 EXCEPT !.userinfo = "ok", !.user = q.provider.user]
                v == VerifyUser(q.provider.user)
            IN  IF sess["requestedURL"].t # "str" THEN Panic(r1)
                ELSE
                    LET requestedURL == sess["requestedURL"].s
                    IN  IF ~v.ok THEN
                            keep(RenderIndex([r1 EXCEPT !.verify = "deny"],
                                             IF requestedURL # ""
                                             THEN "not authorized, try again link"
                                             ELSE "not authorized"))
                        ELSE
                            LET token == CreateUserTokenString(q.provider.user,
                                             q.provider.customClaims, q.provider.ptokens)
                                r2 == [r1 EXCEPT !.verify = "permit", !.cookie = "set",
                                                 !.token = token]
                            IN  IF requestedURL # "" THEN
                                    Outcome(Redirect302([r2 EXCEPT !.saved = TRUE],
                                                        RequestedTarget(requestedURL)),
                                            [sess EXCEPT !["requestedURL"] = StrV(""),
                                                         ![requestedURL] = IntV(0)],
                                            token, oauthRedirectURL, sessMaxAge)
                                ELSE
                                    Outcome(RenderIndex(r2, "token"),
                                            session, token, oauthRedirectURL, sessMaxAge)

\* A mutant of CallbackOutcome: a mismatch of the state nonce drops the stored
\* nonce from the session.
CallbackOutcomeMismatchSaves(q) ==
    LET got == SessionGet(q)
        sess == got.session
        r0 == BaseResp("auth")
        keep(r) == Outcome(r, session, proofCookie, oauthRedirectURL, sessMaxAge)
    IN  IF got.err # "nil" THEN
            keep([r0 EXCEPT !.status = 500, !.page = "error", !.msg = "session"])
        ELSE IF sess["state"] # StrV(q.state) THEN
            Outcome(RenderIndex([r0 EXCEPT !.saved = TRUE], "Invalid session state"),
                    [sess EXCEPT !["state"] = Nil],
                    proofCookie, oauthRedirectURL, sessMaxAge)
        ELSE IF q.error # "" THEN
            keep(RenderIndex([r0 EXCEPT !.status = 403], "FORBIDDEN"))
        ELSE IF q.provider.err THEN
            keep([r0 EXCEPT !.status = 400, !.page = "error", !.msg = "userinfo",
                            !.userinfo = "error"])
        ELSE
            LET r1 == [r0 EXCEPT !.userinfo = "ok", !.user = q.provider.user]
                v == VerifyUser(q.provider.user)
            IN  IF sess["requestedURL"].t # "str" THEN Panic(r1)
                ELSE
                    LET requestedURL == sess["requestedURL"].s
                    IN  IF ~v.ok THEN
                            keep(RenderIndex([r1 EXCEPT !.verify = "deny"],
                                             IF requestedURL # ""
                                             THEN "not authorized, try again link"
                                             ELSE "not authorized"))
                        ELSE
                            LET token == CreateUserTokenString(q.provider.user,
                                             q.provider.customClaims, q.provider.ptokens)
                                r2 == [r1 EXCEPT !.verify = "permit", !.cookie = "set",
                                                 !.token = token]
                            IN  IF requestedURL # "" THEN
                                    Outcome(Redirect302([r2 EXCEPT !.saved = TRUE],
                                                        RequestedTarget(requestedURL)),
                                            [sess EXCEPT !["requestedURL"] = StrV(""),
                                                         ![requestedURL] = IntV(0)],
                                            token, oauthRedirectURL, sessMaxAge)
                                ELSE
                                    Outcome(RenderIndex(r2, "token"),
                                            session, token, oauthRedirectURL, sessMaxAge)

\* CallbackHandler(w, r) for the request q.
CallbackOutcome(q) ==
    LET got == SessionGet(q)
        sess == got.session
        r0 == BaseResp("auth")
        keep(r) == Outcome(r, session, proofCookie, oauthRedirectURL, sessMaxAge)
    IN  \* lines 463-468
        IF got.err # "nil" THEN
            keep([r0 EXCEPT !.status = 500, !.page = "error", !.msg = "session"])
        \* lines 471-476
        ELSE IF sess["state"] # StrV(q.state) THEN
            keep(RenderIndex(r0, "Invalid session state"))
        \* lines 478-485
        ELSE IF q.error # "" THEN
            keep(RenderIndex([r0 EXCEPT !.status = 403], "FORBIDDEN"))
        \* lines 491-495
        ELSE IF q.provider.err THEN
            keep([r0 EXCEPT !.status = 400, !.page = "error", !.msg = "userinfo",
                            !.userinfo = "error"])
        ELSE
            LET r1 == [r0 EXCEPT !.userinfo = "ok", !.user = q.provider.user]
                v == VerifyUser(q.provider.user)
            IN  \* lines 505 and 522: session.Values["requestedURL"].(string)
                IF sess["requestedURL"].t # "str" THEN Panic(r1)
                ELSE
                    LET requestedURL == sess["requestedURL"].s
                    IN  \* lines 502-513
                        IF ~v.ok THEN
                            keep(RenderIndex([r1 EXCEPT !.verify = "deny"],
                                             IF requestedURL # ""
                                             THEN "not authorized, try again link"
                                             ELSE "not authorized"))
                        ELSE
                            \* lines 518-519
                            LET token == CreateUserTokenString(q.provider.user,
                                             q.provider.customClaims, q.provider.ptokens)
                                r2 == [r1 EXCEPT !.verify = "permit", !.cookie = "set",
                                                 !.token = token]
                            IN  \* lines 522-533
                                IF requestedURL # "" THEN
                                    Outcome(Redirect302([r2 EXCEPT !.saved = TRUE],
                                                        RequestedTarget(requestedURL)),
                                            [sess EXCEPT !["requestedURL"] = StrV(""),
                                                         ![requestedURL] = IntV(0)],
                                            token, oauthRedirectURL, sessMaxAge)
                                ELSE
                                    \* line 535
                                    Outcome(RenderIndex(r2, "token"),
                                            session, token, oauthRedirectURL, sessMaxAge)

\* The answers the provider may give to the callback q.
AnswersAsked(q) ==
    IF CallbackOutcome([q EXCEPT !.provider = ProviderError]).resp.userinfo = "no"
    THEN {NoAnswer}
    ELSE ProviderAnswers

(***************************************************************************)
(* LogoutHandler: /logout                                                  *)
(***************************************************************************)
\* LogoutHandler(w, r) for the request q: the session is saved with MaxAge -1,
\* which makes the browser drop the session cookie, and the store's MaxAge is
\* then set to 300.
LogoutOutcomeKeepsSession(q) ==
    LET r0 == [BaseResp("logout") EXCEPT !.cookie = "clear", !.saved = TRUE]
    IN  Outcome(IF q.url # "" THEN Redirect302(r0, RequestedTarget(q.url))
                ELSE RenderIndex(r0, "you have been logged out"),
                session, EmptyJWT, oauthRedirectURL, 300)

LogoutOutcome(q) ==
    LET r0 == [BaseResp("logout") EXCEPT !.cookie = "clear", !.saved = TRUE]
    IN  Outcome(IF q.url # "" THEN Redirect302(r0, RequestedTarget(q.url))
                ELSE RenderIndex(r0, "you have been logged out"),
                EmptySession, EmptyJWT, oauthRedirectURL, 300)

(***************************************************************************)
(* Configurations.                                                         *)
(***************************************************************************)
HdrGroups == "X-Vouch-IdP-Claims-Groups"
HdrAccessToken == "X-Vouch-IdP-AccessToken"
HdrIDToken == "X-Vouch-IdP-IdToken"
HdrRole == "X-Vouch-IdP-Claims-Role"
NoHeadersClaims == [c \in ClaimNames |-> ""]

BaseCfg ==
    [AllowAllUsers |-> FALSE, WhiteList |-> <<>>, TeamWhiteList |-> <<>>,
     Domains |-> <<DomainA>>, PublicAccess |-> FALSE, Testing |-> FALSE,
     Provider |-> "github", OAuthopts |-> FALSE,
     RedirectURLs |-> <<RedirectA, RedirectB>>,
     HeadersClaims |-> [NoHeadersClaims EXCEPT !["groups"] = HdrGroups,
                                               !["role"] = HdrRole],
     HeadersAccessToken |-> HdrAccessToken, HeadersIDToken |-> HdrIDToken]

\* The policy settings VerifyUser reads, over all combinations.
PolicyConfigs ==
    { [BaseCfg EXCEPT !.AllowAllUsers = a, !.WhiteList = w, !.TeamWhiteList = t,
                      !.Domains = d] :
        a \in BOOLEAN,
        w \in { <<>>, <<"alice">>, <<"bob", "alice">> },
        t \in { <<>>, <<"dev">>, <<"qa", "ops">> },
        d \in { <<>>, <<DomainA>>, <<DomainB, DomainA>> } }

\* The settings /validate reads, over all combinations.
ValidateConfigs ==
    { [BaseCfg EXCEPT !.AllowAllUsers = a, !.PublicAccess = p, !.Testing = t,
                      !.HeadersClaims = h[1], !.HeadersAccessToken = h[2]] :
        a \in BOOLEAN, p \in BOOLEAN, t \in BOOLEAN,
        h \in { <<NoHeadersClaims, "">>, <<BaseCfg.HeadersClaims, HdrAccessToken>> } }

\* The configurations the login flow is run under: the domains tier, the
\* username whitelist with two domains and a redirect URL for each, testing
\* mode, and the ADFS provider.
FlowConfigs ==
    { BaseCfg,
      [BaseCfg EXCEPT !.WhiteList = <<"alice">>, !.Domains = <<DomainB, DomainA>>],
      [BaseCfg EXCEPT !.Testing = TRUE],
      [BaseCfg EXCEPT !.Provider = "adfs", !.OAuthopts = TRUE,
                      !.Domains = <<DomainB, DomainA>>] }

(***************************************************************************)
(* The requests drawn.                                                     *)
(***************************************************************************)
JWTAlice ==
    [kind |-> "ok",
     claims |-> [Username |-> "alice", Sites |-> <<DomainA>>,
                 CustomClaims |-> [NoCustomClaims EXCEPT !["groups"] = ClaimSeqAB,
                                                          !["role"] = ClaimNum],
                 PAccessToken |-> "at", PIdToken |-> "idt"]]
JWTBob ==
    [kind |-> "ok",
     claims |-> [Username |-> "bob", Sites |-> <<DomainB, DomainA>>,
                 CustomClaims |-> [NoCustomClaims EXCEPT !["groups"] = ClaimStr,
                                                          !["role"] = ClaimMap],
                 PAccessToken |-> "", PIdToken |-> ""]]
JWTNoSites == [JWTBob EXCEPT !.claims.Sites = <<>>]
JWTNoName == [JWTAlice EXCEPT !.claims.Username = ""]

\* The JWT strings a proof cookie may hold.
CookieJWTs ==
    { EmptyJWT, GarbageJWT, JWTAlice, JWTBob, JWTNoSites, JWTNoName,
      [JWTAlice EXCEPT !.kind = "expired"], [JWTAlice EXCEPT !.kind = "noclaims"] }

\* The JWT strings sent in a header or in the query string.
HeaderJWTs == { EmptyJWT, JWTBob }
QueryJWTs == { EmptyJWT, GarbageJWT }

AuthHeaders ==
    { NoAuth,
      [scheme |-> "Bearer", space |-> TRUE, rest |-> JWTAlice],
      [scheme |-> "Basic", space |-> TRUE, rest |-> JWTNoSites],
      [scheme |-> "Bearer", space |-> TRUE, rest |-> EmptyJWT],
      [scheme |-> "Bearer", space |-> FALSE, rest |-> EmptyJWT] }

ValidateHosts == {HostA, HostEvil, HostOther}
LoginHosts == {HostA, HostB}
QueryStates == {""} \cup Nonces
QueryErrors == {"", "access_denied"}

(***************************************************************************)
(* The actions: one per handler.                                           *)
(***************************************************************************)
\* The last request was an /auth callback that failed with a state mismatch, a
\* provider error or a policy denial.
CallbackFailed ==
    /\ resp.handler = "auth"
    /\ \/ resp.msg = "Invalid session state"
       \/ resp.status = 403
       \/ resp.verify = "deny"

\* Lines 376-392: the next /login for url with the session sess gets the
\* loop-guard page, since the counter stored for url is already 2 or more.
LockedOut(sess, u) == sess[u].t = "int" /\ sess[u].n >= 2

\* The effect of a handler that served q with outcome o.
Served(q, o) ==
    /\ o.appended => nTestURLs < MaxTestURLs
    /\ req' = q
    /\ resp' = o.resp
    /\ session' = o.session
    /\ proofCookie' = o.proofCookie
    /\ oauthRedirectURL' = o.oauthRedirectURL
    /\ sessMaxAge' = o.sessMaxAge
    /\ nTestURLs' = IF o.appended THEN nTestURLs + 1 ELSE nTestURLs
    /\ retry' = ( /\ CallbackFailed /\ q.handler = "login" /\ q.url # ""
                  /\ session["requestedURL"] = StrV(q.url) )
    /\ lockedAtLogout' =
          IF q.handler = "logout" THEN { u \in URLs : LockedOut(session, u) }
          ELSE IF q.handler = "login" /\ req.handler = "logout" THEN lockedAtLogout
          ELSE {}
    /\ UNCHANGED <<cfg, polUser, polResult, tasks>>

NoLogins == [u \in URLs |-> 0]

\* How often /login is taken for url before the model stops asking.
LoginCap(url) == IF url = URL2 THEN MaxOtherLogins ELSE MaxFailCount

\* The browser reaches vouch-proxy on a host under one of the configured domains.
LoginHandler ==
    \E url \in URLs \cup {""}, bad \in BOOLEAN, rand \in RawNonces \cup {"error"},
       host \in { h \in LoginHosts : Matches(h) # "" } :
        LET q == [BaseReq("login") EXCEPT !.url = url, !.badSession = bad,
                                          !.rand = rand, !.host = host]
            o == LoginOutcome(q)
        IN  /\ url # "" => logins[url] < LoginCap(url)
            /\ Served(q, o)
            /\ logins' = IF ~o.resp.saved THEN logins
                         ELSE IF bad THEN [NoLogins EXCEPT ![url] = 1]
                         ELSE [logins EXCEPT ![url] = @ + 1]

CallbackHandler ==
    \E state \in QueryStates, error \in QueryErrors, bad \in BOOLEAN :
      \E answer \in AnswersAsked([BaseReq("auth") EXCEPT !.state = state,
                                      !.error = error, !.badSession = bad]) :
        LET q == [BaseReq("auth") EXCEPT !.state = state, !.error = error,
                                         !.badSession = bad, !.provider = answer]
            o == CallbackOutcome(q)
        IN  /\ Served(q, o)
            /\ logins' = IF o.resp.saved /\ o.resp.target.kind = "url"
                         THEN [logins EXCEPT ![o.resp.target.url] = 0]
                         ELSE logins

LogoutHandler ==
    \E url \in {"", URL1}, bad \in BOOLEAN :
        LET q == [BaseReq("logout") EXCEPT !.url = url, !.badSession = bad]
            o == LogoutOutcome(q)
        IN  /\ Served(q, o)
            /\ logins' = NoLogins

\* /validate for a request with its Host among hosts, its JWT header among
\* headerJWTs, its Authorization header among auths and its query parameter
\* among queryJWTs; the cookie sent is the browser's.
ValidateWith(hosts, headerJWTs, auths, queryJWTs) ==
    \E host \in hosts, hdrJWT \in headerJWTs, auth \in auths, query \in queryJWTs :
        LET q == [BaseReq("validate") EXCEPT !.host = host, !.cookie = proofCookie,
                                             !.hdrJWT = hdrJWT, !.auth = auth,
                                             !.query = query]
            r == ValidateResponse(q)
            o == Outcome(r, session,
                         IF r.cookie = "clear" THEN EmptyJWT ELSE proofCookie,
                         oauthRedirectURL, sessMaxAge)
        IN  /\ Served(q, o)
            /\ UNCHANGED logins

\* /validate, for any request.
ValidateRequestHandler == ValidateWith(ValidateHosts, HeaderJWTs, AuthHeaders, QueryJWTs)

\* /validate as the proxy asks it for a browser that sends only its cookies.
ValidateFromBrowser == ValidateWith({HostA, HostOther}, {EmptyJWT}, {NoAuth}, {EmptyJWT})

\* A stand-alone call of VerifyUser.
VerifyUserCall ==
    \E u \in Users :
        /\ polUser' = u
        /\ polResult' = VerifyUser(u)
        /\ UNCHANGED <<cfg, oauthRedirectURL, sessMaxAge, nTestURLs, session,
                       proofCookie, logins, req, resp, tasks, retry,
                       lockedAtLogout>>

(***************************************************************************)
(* Concurrent /login requests.  net/http runs every request in a goroutine *)
(* of its own.  The session lives in the browser's cookie: a request       *)
(* carries the session cookie the browser held when it sent the request,   *)
(* and the browser replaces its cookie when the response arrives.  What    *)
(* LoginHandler does with the session therefore depends on the request     *)
(* alone and is computed when the request arrives.  The one value the      *)
(* goroutines share is cfg.OAuthClient.RedirectURL, which loginURL writes  *)
(* (line 96) and AuthCodeURL then reads (lines 101, 103): the write and    *)
(* the read are steps of their own.                                        *)
(***************************************************************************)
\* A task: pc is "idle", "arrived" (request read, session handled, up to line
\* 394), "written" (line 96 done) or "done" (response sent and received).
IdleTask ==
    [pc |-> "idle", q |-> BaseReq("none"),
     o |-> [resp |-> BaseResp("none"), session |-> EmptySession,
            proofCookie |-> EmptyJWT, oauthRedirectURL |-> RedirectA,
            sessMaxAge |-> 0, appended |-> FALSE]]

\* Whether the handler of task t calls loginURL and goes through its loop.
CallsLoginURL(t) == t.o.resp.target.kind = "provider"

\* The browser sends /login with the session cookie it holds.
LoginArrives(i) ==
    \E rand \in RawNonces, host \in { h \in LoginHosts : Matches(h) # "" } :
        LET q == [BaseReq("login") EXCEPT !.url = URL1, !.rand = rand, !.host = host]
        IN  /\ tasks[i].pc = "idle"
            /\ tasks' = [tasks EXCEPT ![i] = [pc |-> "arrived", q |-> q,
                                              o |-> LoginOutcome(q)]]
            /\ UNCHANGED <<cfg, oauthRedirectURL, sessMaxAge, nTestURLs, session,
                           proofCookie, logins, req, resp, polUser, polResult,
                           retry, lockedAtLogout>>

\* Lines 91-99: loginURL stores the redirect URL for the request's host.
LoginWritesRedirect(i) ==
    /\ tasks[i].pc = "arrived" /\ CallsLoginURL(tasks[i])
    /\ oauthRedirectURL' = LoginRedirectURL(tasks[i].q)
    /\ tasks' = [tasks EXCEPT ![i].pc = "written"]
    /\ UNCHANGED <<cfg, sessMaxAge, nTestURLs, session, proofCookie, logins,
                   req, resp, polUser, polResult, retry, lockedAtLogout>>

\* Lines 100-107 and 396: AuthCodeURL reads the stored redirect URL and the
\* response is sent; the browser takes the cookies of the response.
LoginResponds(i) ==
    LET t == tasks[i]
        r == IF CallsLoginURL(t)
             THEN [t.o.resp EXCEPT !.target.redirect = oauthRedirectURL]
             ELSE t.o.resp
    IN  /\ t.pc = (IF CallsLoginURL(t) THEN "written" ELSE "arrived")
        /\ tasks' = [tasks EXCEPT ![i].pc = "done", ![i].o.resp = r]
        /\ req' = t.q
        /\ resp' = r
        /\ session' = IF r.saved THEN t.o.session ELSE session
        /\ proofCookie' = IF r.cookie = "clear" THEN EmptyJWT ELSE proofCookie
        /\ logins' = IF r.saved THEN [logins EXCEPT ![t.q.url] = @ + 1] ELSE logins
        /\ UNCHANGED <<cfg, oauthRedirectURL, sessMaxAge, nTestURLs, polUser,
                       polResult, retry, lockedAtLogout>>

(***************************************************************************)
(* The specifications.                                                     *)
(***************************************************************************)
NoPolResult == [ok |-> FALSE, err |-> "nil", log |-> "none"]

\* The state after Configure, with n goroutines ready to serve /login
\* concurrently.
InitWithTasks(configs, cookies, n) ==
    /\ cfg \in configs
    /\ oauthRedirectURL = RedirectA
    /\ sessMaxAge = 86400 * 30
    /\ nTestURLs = 0
    /\ session = EmptySession
    /\ proofCookie \in cookies
    /\ logins = NoLogins
    /\ req = BaseReq("none")
    /\ resp = BaseResp("none")
    /\ polUser = NoUser
    /\ polResult = NoPolResult
    /\ tasks = [i \in 1..n |-> IdleTask]
    /\ retry = FALSE
    /\ lockedAtLogout = {}

\* The state after Configure when requests are served one at a time.
InitWith(configs, cookies) == InitWithTasks(configs, cookies, 0)

\* One browser, from its first request on.
Init == InitWith(FlowConfigs, {EmptyJWT})

Next ==
    \/ LoginHandler
    \/ CallbackHandler
    \/ LogoutHandler
    \/ ValidateFromBrowser

Spec == Init /\ [][Next]_vars

\* /validate alone, for every configuration it reads and every proof cookie.
InitValidate == InitWith(ValidateConfigs, CookieJWTs)

SpecValidate == InitValidate /\ [][ValidateRequestHandler]_vars

\* VerifyUser alone, for every policy configuration and identity.
InitPolicy == InitWith(PolicyConfigs, {EmptyJWT})

SpecPolicy == InitPolicy /\ [][VerifyUserCall]_vars

\* Concurrent /login requests of one browser, under the configurations that
\* let loginURL choose the redirect URL.
InitConcurrent ==
    InitWithTasks({ c \in FlowConfigs : ~c.Testing /\ c.Provider = "github" },
                  {EmptyJWT}, NumTasks)

NextConcurrent ==
    \E i \in 1..NumTasks :
        \/ LoginArrives(i)
        \/ LoginWritesRedirect(i)
        \/ LoginResponds(i)

SpecConcurrent == InitConcurrent /\ [][NextConcurrent]_vars

(***************************************************************************)
(* Reference notions the properties are stated with.                       *)
(***************************************************************************)
\* The tier of the policy that decides under the configuration c.
PolicyTier(c) ==
    IF c.AllowAllUsers THEN "allowall"
    ELSE IF c.WhiteList # <<>> THEN "whitelist"
    ELSE IF c.TeamWhiteList # <<>> THEN "team"
    ELSE IF c.Domains # <<>> THEN "domains"
    ELSE "default"

\* The decision of that tier for the identity u.
PolicyPermits(u, c) ==
    CASE PolicyTier(c) = "whitelist" -> u.Username \in SeqToSet(c.WhiteList)
      [] PolicyTier(c) = "team" ->
            SeqToSet(u.TeamMemberships) \cap SeqToSet(c.TeamWhiteList) # {}
      [] PolicyTier(c) = "domains" ->
            /\ EmailDomain(u.Email) # ""
            /\ \E d \in SeqToSet(c.Domains) : IsOrHasDotSuffix(EmailDomain(u.Email), d)
      [] OTHER -> TRUE

\* The host matches an entry of the token's authorized-site set.
HostAuthorized(host, claims) ==
    \E site \in SeqToSet(claims.Sites) : StrContains(host, site)

\* The last request was a /validate that failed to authenticate: no token, a
\* token that does not parse, an empty username, or a Host that is not authorized.
ValidateFailed ==
    /\ req.handler = "validate"
    /\ \/ FindJWT(req).kind # "ok"
       \/ FindJWT(req).claims.Username = ""
       \/ ~cfg.AllowAllUsers /\ ~HostAuthorized(req.host, FindJWT(req).claims)

\* The response carries the success flag and the given identity.
SuccessFor(r, username) ==
    /\ r.status = 200
    /\ <<HdrUser, Str(username)>> \in r.headers
    /\ <<HdrSuccess, <<"true">>>> \in r.headers

\* In the step taken, /auth was served for a request whose session loaded with
\* a stored nonce equal to the state parameter.
StateMatched == ~req'.badSession /\ session["state"] = StrV(req'.state)

(***************************************************************************)
(* C1..C10                                                                 *)
(***************************************************************************)
\* C1: a proof token is created and set as a cookie only by an /auth callback
\* whose state equalled the stored nonce, that carried no provider error, whose
\* GetUserInfo succeeded and whose identity the policy permits; the token is
\* the one created for that identity.
C1_TokenOnlyAfterApproval ==
    [][ (resp'.cookie = "set" \/ resp'.token # EmptyJWT) =>
            /\ req'.handler = "auth"
            /\ StateMatched
            /\ req'.error = ""
            /\ ~req'.provider.err
            /\ req'.provider \in ProviderAnswers
            /\ resp'.userinfo = "ok" /\ resp'.verify = "permit"
            /\ resp'.user = req'.provider.user
            /\ PolicyPermits(req'.provider.user, cfg)
            /\ resp'.cookie = "set"
            /\ resp'.token.kind = "ok"
            /\ resp'.token.claims.Username = req'.provider.user.Username
            /\ proofCookie' = resp'.token ]_vars

C1_Witness ==
    /\ resp.handler = "auth" /\ resp.cookie = "set"
    /\ proofCookie.kind = "ok" /\ proofCookie.claims.Username = "alice"
    /\ cfg.WhiteList = <<"alice">>

\* C2: /validate answers 200 with the identity header equal to the token's
\* username and the success flag "true" exactly when a token was found, it
\* parsed, its username is not empty and the Host is authorized (or allow-all is
\* set); for a Host that is not authorized, without allow-all, the response
\* carries no success flag and no identity header other than the empty one.
C2_ValidateSuccessIff ==
    req.handler = "validate" =>
        /\ (\E name \in Usernames \ {""} : SuccessFor(resp, name)) <=> ~ValidateFailed
        /\ ~ValidateFailed => SuccessFor(resp, FindJWT(req).claims.Username)
        /\ (~cfg.AllowAllUsers /\ ~HostAuthorized(req.host, FindJWT(req).claims)) =>
              \A h \in resp.headers : h[1] # HdrSuccess /\ (h[1] = HdrUser => h[2] = <<>>)

C2_Witness ==
    /\ req.handler = "validate" /\ ~cfg.AllowAllUsers
    /\ req.host = HostA /\ req.cookie = JWTAlice
    /\ SuccessFor(resp, "alice")

\* C3 as stated: a callback whose state differs from the stored nonce (or that
\* has no session to load) renders the informational page, sets no cookie, calls
\* neither GetUserInfo nor VerifyUser and leaves the session as it was.
C3_Original ==
    [][ (req'.handler = "auth" /\ ~StateMatched) =>
            /\ resp'.page = "index" /\ resp'.msg = "Invalid session state"
            /\ resp'.cookie = "keep" /\ resp'.token = EmptyJWT
            /\ resp'.userinfo = "no" /\ resp'.verify = "no"
            /\ session' = session /\ logins' = logins ]_vars

\* C3 as amended: the informational page is rendered when the session loads;
\* when the session cookie does not decode the answer is HTTP 500 with the
\* error text.  In both cases no cookie is set, GetUserInfo and VerifyUser are
\* not called and the session is left as it was.
C3_StateMismatch ==
    [][ (req'.handler = "auth" /\ ~StateMatched) =>
            /\ ~req'.badSession =>
                  resp'.status = 200 /\ resp'.page = "index"
                  /\ resp'.msg = "Invalid session state"
            /\ req'.badSession =>
                  resp'.status = 500 /\ resp'.page = "error"
            /\ resp'.cookie = "keep" /\ resp'.token = EmptyJWT
            /\ proofCookie' = proofCookie
            /\ resp'.userinfo = "no" /\ resp'.verify = "no"
            /\ ~resp'.saved
            /\ session' = session /\ logins' = logins ]_vars

C3_Witness ==
    /\ req.handler = "auth" /\ ~req.badSession
    /\ resp.msg = "Invalid session state"
    /\ session["state"] = StrV("n1") /\ req.state = "n2"
    /\ session["requestedURL"] = StrV(URL1)

\* C4 as stated: a nonce issued by /login is accepted by at most one callback.
\* Once a callback has matched the stored nonce and issued a token, a second
\* callback with the same state, with no /login in between, issues no token.
C4_NonceSingleUse ==
    [][ ( /\ resp.handler = "auth" /\ resp.cookie = "set" /\ req.state \in Nonces
          /\ req'.handler = "auth" /\ req'.state = req.state )
        => resp'.cookie # "set" ]_vars

\* C5 as stated: when the random source fails, /login issues no redirect to the
\* provider and stores no empty nonce as the expected state.
C5_NonceFailureAborts ==
    (req.handler = "login" /\ req.rand = "error") =>
        /\ resp.target.kind # "provider"
        /\ ~(resp.saved /\ session["state"] = StrV(""))

\* C6 as stated: a callback with a non-empty error parameter is answered 403
\* and goes no further, whatever the state parameter and the stored nonce.
C6_Original ==
    (req.handler = "auth" /\ req.error # "") =>
        /\ resp.status = 403
        /\ resp.userinfo = "no" /\ resp.verify = "no" /\ resp.cookie # "set"

\* C6 as amended: the state is compared first.  A callback with a non-empty
\* error parameter is answered 403 with the description rendered when the
\* session loads and the state equals the stored nonce; otherwise it gets the
\* state-mismatch page (or 500 when the session cookie does not decode).  In
\* every case GetUserInfo and VerifyUser are not called and no token is issued.
C6_ProviderError ==
    [][ (req'.handler = "auth" /\ req'.error # "") =>
            /\ StateMatched =>
                  resp'.status = 403 /\ resp'.page = "index" /\ resp'.msg = "FORBIDDEN"
            /\ (~req'.badSession /\ ~StateMatched) =>
                  resp'.status = 200 /\ resp'.msg = "Invalid session state"
            /\ req'.badSession => resp'.status = 500
            /\ resp'.userinfo = "no" /\ resp'.verify = "no"
            /\ resp'.cookie = "keep" /\ resp'.token = EmptyJWT
            /\ session' = session /\ proofCookie' = proofCookie ]_vars

C6_Witness ==
    /\ req.handler = "auth" /\ req.error = "access_denied"
    /\ resp.status = 403 /\ session["state"] = StrV(req.state)

\* C7 as stated: a /login for a URL is redirected to the provider exactly when
\* fewer than two /login requests for that URL were served since the session
\* started or since the last callback that redirected to it.  (In testing mode
\* the redirect is the page redirect302 renders in its place.)
C7_LoopGuard ==
    [][ (req'.handler = "login" /\ req'.url # "") =>
            ( resp'.target.kind = "provider"
              <=> (IF req'.badSession THEN 0 ELSE logins[req'.url]) < 2 ) ]_vars

\* C8: VerifyUser is the decision of the one tier that the precedence selects,
\* and it returns an error exactly when it denies.
C8_VerifyUserPrecedence ==
    polResult.log # "none" =>
        /\ polResult.log = PolicyTier(cfg)
        /\ polResult.ok = PolicyPermits(polUser, cfg)
        /\ (polResult.err # "nil") <=> ~polResult.ok
        /\ polResult.err \in {"nil", PolicyTier(cfg)}

C8_Witness ==
    /\ polResult.log = "whitelist" /\ ~polResult.ok
    /\ cfg.TeamWhiteList # <<>> /\ cfg.Domains # <<>>
    /\ SeqToSet(polUser.TeamMemberships) \cap SeqToSet(cfg.TeamWhiteList) # {}

\* C9: without public access, every authentication failure of /validate is
\* answered 401, clears the proof cookie and sets no header.
C9_Failure401 ==
    (ValidateFailed /\ ~cfg.PublicAccess) =>
        /\ resp.status = 401 /\ resp.page = "error"
        /\ resp.cookie = "clear" /\ proofCookie = EmptyJWT
        /\ resp.headers = {}

C9_Witness ==
    /\ ValidateFailed /\ ~cfg.PublicAccess /\ resp.status = 401
    /\ FindJWT(req).kind = "ok" /\ FindJWT(req).claims.Username = "bob"

\* C10: with public access, every authentication failure of /validate is
\* answered 200 with the empty identity header and no other header, and leaves
\* the proof cookie alone: in status and headers it is the answer to a request
\* without a token.
C10_PublicFailure200 ==
    (ValidateFailed /\ cfg.PublicAccess) =>
        /\ resp.status = 200
        /\ resp.headers = {<<HdrUser, <<>>>>}
        /\ resp.cookie = "keep" /\ resp.token = EmptyJWT

C10_Witness ==
    /\ ValidateFailed /\ cfg.PublicAccess /\ resp.status = 200
    /\ FindJWT(req).kind = "ok" /\ FindJWT(req).claims.Username = "bob"

(***************************************************************************)
(* C11..C20                                                                *)
(***************************************************************************)
\* An Authorization header of the form `Bearer <token>`.
IsBearerToken(auth) ==
    auth.scheme = "Bearer" /\ auth.space /\ auth.rest.kind # "empty"

\* The sources of a token in the request r, in the order of precedence, each
\* with whether it supplies a token and the token it supplies.
TokenSources(r) ==
    << [has |-> r.cookie.kind # "empty", jwt |-> r.cookie],
       [has |-> r.hdrJWT.kind # "empty", jwt |-> r.hdrJWT],
       [has |-> IsBearerToken(r.auth), jwt |-> r.auth.rest],
       [has |-> r.query.kind # "empty", jwt |-> r.query] >>

\* C11 as stated: FindJWT returns the token of the first of the four sources
\* that supplies one, and the empty string iff none does; an Authorization
\* header that is not `Bearer <token>` supplies none.
C11_FindJWTOrder ==
    req.handler = "validate" =>
        LET src == TokenSources(req)
            first == { i \in 1..4 : src[i].has /\ \A j \in 1..(i - 1) : ~src[j].has }
        IN  /\ \A i \in first : FindJWT(req) = src[i].jwt
            /\ (FindJWT(req).kind = "empty") <=> (first = {})

\* The header value the claim value v is to be rendered as: a sequence as its
\* elements in double quotes joined by commas, a scalar as its string form.
RenderedClaim(v) ==
    CASE v = ClaimSeqAB -> <<"\"", "a", "\"", ",", "\"", "b", "\"">>
      [] v = ClaimStr -> <<"admin">>
      [] v = ClaimNum -> <<"7">>

\* C12 as stated: on a successful /validate every configured claim found in
\* the token is rendered into its header, a sequence quoted and comma
\* separated, a scalar as its string form; a value of another shape gets no
\* header, and the response is still 200 with the identity and success headers.
C12_ClaimHeaderRendering ==
    (req.handler = "validate" /\ ~ValidateFailed) =>
        LET claims == FindJWT(req).claims
        IN  /\ SuccessFor(resp, claims.Username)
            /\ \A c \in ClaimNames :
                  (cfg.HeadersClaims[c] # "" /\ claims.CustomClaims[c] # ClaimAbsent) =>
                      LET v == claims.CustomClaims[c]
                          sent == { h[2] : h \in { x \in resp.headers :
                                                    x[1] = cfg.HeadersClaims[c] } }
                      IN  IF v.t \in {"seq", "str", "num"}
                          THEN sent = {RenderedClaim(v)}
                          ELSE sent = {}

\* In the step taken, /auth was served for a callback that succeeds: the state
\* matches, there is no provider error, GetUserInfo answers with an identity
\* and the policy permits it.
SuccessfulCallback ==
    /\ req'.handler = "auth" /\ StateMatched /\ req'.error = ""
    /\ req'.provider \in ProviderAnswers /\ ~req'.provider.err
    /\ PolicyPermits(req'.provider.user, cfg)

\* What a successful callback does, with `redirected` telling how the response
\* of redirect302 must look; and what the /login after it does.
SuccessRedirects(redirected) ==
    /\ SuccessfulCallback =>
          LET u == session["requestedURL"]
          IN  /\ resp'.cookie = "set" /\ resp'.token.kind = "ok"
              /\ proofCookie' = resp'.token
              /\ IF u.t = "str" /\ u.s # ""
                 THEN /\ session'["requestedURL"] = StrV("")
                      /\ session'[u.s] = IntV(0)
                      /\ \A k \in SessionKeys \ {"requestedURL", u.s} :
                            session'[k] = session[k]
                      /\ resp'.target.kind = "url" /\ resp'.target.url = u.s
                      /\ (req.handler = "login" /\ resp.saved) => u.s = req.url
                      /\ redirected
                 ELSE /\ u = StrV("")
                      /\ resp'.status = 200 /\ resp'.page = "index"
                      /\ resp'.msg = "token" /\ resp'.target.kind = "none"
                      /\ session' = session
    /\ ( /\ resp.handler = "auth" /\ resp.cookie = "set" /\ resp.target.kind = "url"
         /\ req'.handler = "login" /\ req'.url = resp.target.url )
       => resp'.target.kind = "provider" /\ resp'.saved

\* C13 as stated: a successful callback with a known requested URL sets the
\* proof cookie, clears the stored requested URL, resets its failure counter
\* and answers 302 to the URL stored by the preceding /login, so that the next
\* /login for that URL redirects to the provider; with no requested URL known
\* it renders a page embedding the token.
C13_Original ==
    [][ SuccessRedirects(resp'.status = 302 /\ resp'.page = "redirect") ]_vars

\* C13 as amended: the answer is a 302 unless testing mode is on; in testing
\* mode redirect302 renders a page (HTTP 200) that names the URL instead.
C13_SuccessRedirect ==
    [][ SuccessRedirects(IF cfg.Testing
                         THEN /\ resp'.status = 200 /\ resp'.page = "index"
                              /\ resp'.msg = "302 redirect to"
                         ELSE resp'.status = 302 /\ resp'.page = "redirect") ]_vars

C13_Witness ==
    /\ req.handler = "auth" /\ resp.cookie = "set" /\ resp.status = 302
    /\ resp.target.url = URL2
    /\ session["requestedURL"] = StrV("")
    /\ session[URL2] = IntV(0) /\ session[URL1] = IntV(2)

\* C14 as stated: every /login clears the proof cookie whatever its outcome;
\* a /login without a url renders an informational page, issues no redirect
\* and leaves the session as it was.
C14_LoginClearsCookie ==
    [][ req'.handler = "login" =>
            /\ resp'.cookie = "clear" /\ proofCookie' = EmptyJWT
            /\ req'.url = "" =>
                  /\ resp'.page = "index" /\ resp'.target.kind = "none"
                  /\ ~resp'.saved /\ session' = session ]_vars

\* C15 as stated: however concurrent /login requests of one session for one
\* URL interleave, no update of the failure counter is lost: when n of them
\* have completed the stored counter is n, and at most two of them were
\* redirected to the provider.
C15_NoLostUpdate ==
    LET done == { i \in 1..NumTasks : tasks[i].pc = "done" }
        redirected == { i \in done : tasks[i].o.resp.target.kind = "provider" }
    IN  /\ done # {} => session[URL1] = IntV(Cardinality(done))
        /\ Cardinality(redirected) <= 2

\* The configured redirect URL that matches the host of a request.
OwnRedirectURL(host) ==
    CHOOSE v \in SeqToSet(cfg.RedirectURLs) : StrContains(v, host)

\* C16 as stated: handlers write no process-wide state, so that the redirect
\* URL embedded in the provider URL of a /login is the one configured for the
\* request's own Host, never one chosen by another request.
C16_RequestsIndependent ==
    \A i \in 1..NumTasks :
        (tasks[i].pc = "done" /\ tasks[i].o.resp.target.kind = "provider") =>
            tasks[i].o.resp.target.redirect = OwnRedirectURL(tasks[i].q.host)

\* In the step taken, /login is served for the destination the session holds.
RetryLogin ==
    /\ req'.handler = "login" /\ req'.url # ""
    /\ session["requestedURL"] = StrV(req'.url)

\* In the step taken, the callback answering the /login just redirected is
\* served: its state is the one of the redirect, and the provider's identity
\* is approved by the policy.
ApprovedAnswer ==
    /\ resp.handler = "login" /\ resp.target.kind = "provider"
    /\ req'.handler = "auth" /\ ~req'.badSession /\ req'.state = resp.target.state
    /\ req'.error = "" /\ req'.provider \in ProviderAnswers /\ ~req'.provider.err
    /\ PolicyPermits(req'.provider.user, cfg)

IssuedNonce(rand) ==
    CASE rand = "n1" -> "n1"
      [] rand = "n-2_" -> "n2"
      [] rand = "error" -> ""

\* C18: only the nonce issued last is valid.  The stored nonce is the one of
\* the last /login that saved the session: a saved /login stores its nonce,
\* and no other request but /logout changes the stored nonce.  A callback
\* after a /login with a state other than that nonce fails the state check
\* and issues no token; with that nonce it passes the state check.
C18_LatestNonceOnly ==
    [][ /\ (req'.handler = "login" /\ resp'.saved) =>
              /\ session'["state"] = StrV(IssuedNonce(req'.rand))
              /\ resp'.target.kind = "provider" =>
                    resp'.target.state = IssuedNonce(req'.rand)
        /\ (req'.handler \notin {"login", "logout"} \/ ~resp'.saved) =>
              session'["state"] = session["state"]
        /\ (/\ req.handler = "login" /\ resp.saved
            /\ req'.handler = "auth" /\ ~req'.badSession) =>
              IF req'.state = IssuedNonce(req.rand)
              THEN /\ resp'.msg # "Invalid session state"
                   /\ resp'.status = 403 \/ resp'.userinfo # "no"
              ELSE /\ resp'.msg = "Invalid session state"
                   /\ resp'.cookie = "keep" /\ resp'.token = EmptyJWT
                   /\ proofCookie' = proofCookie ]_vars

C18_Witness ==
    /\ req.handler = "auth" /\ req.state = "n1" /\ ~req.badSession
    /\ resp.msg = "Invalid session state"
    /\ session["state"] = StrV("n2") /\ logins[URL1] = 2

\* C19 as stated: for every destination URL, the strings "state" and
\* "requestedURL" included, /login completes and leaves the session with the
\* new nonce, the destination, and the destination's failure counter raised
\* by one.
C19_NoKeyCollision ==
    [][ (req'.handler = "login" /\ req'.url # "") =>
            /\ resp'.status # 0 /\ resp'.saved
            /\ session'["state"] = StrV(IssuedNonce(req'.rand))
            /\ session'["requestedURL"] = StrV(req'.url)
            /\ session'[req'.url] =
                  IntV((IF req'.badSession THEN 0 ELSE logins[req'.url]) + 1) ]_vars

\* C20: a session that holds a string nonce holds a string requestedURL, and
\* it holds no nonce that is not a string; so a callback that passes the state
\* check finds a string under requestedURL and does not panic.
C20_RequestedURLIsString ==
    /\ session["state"].t \in {"nil", "str"}
    /\ session["state"].t = "str" => session["requestedURL"].t = "str"
    /\ (req.handler = "auth" /\ resp.msg # "Invalid session state") =>
          resp.status # 0

C20_Witness ==
    /\ req.handler = "auth" /\ resp.msg = "token" /\ resp.cookie = "set"
    /\ session["state"] = StrV(req.state)
    /\ session["requestedURL"] = StrV("")

(***************************************************************************)
(* C21: /logout                                                            *)
(***************************************************************************)
\* The destinations /login can count failures for: every URL but the two
\* strings the session uses as keys of its own (lines 356, 372 and 378).
Countable == URLs \ {"state", "requestedURL"}

\* What /logout does and what the requests after it do, with `redirected`
\* telling how the response of redirect302 must look.  A session without
\* values is what /logout leaves and what every request but a /login keeps.
LogoutEffects(redirected) ==
    /\ req'.handler = "logout" =>
          /\ resp'.cookie = "clear" /\ proofCookie' = EmptyJWT
          /\ resp'.saved /\ session' = EmptySession
          /\ \A u \in URLs : ~LockedOut(session', u)
          /\ sessMaxAge' > 0
          /\ IF req'.url # ""
             THEN resp'.target = RequestedTarget(req'.url) /\ redirected
             ELSE /\ resp'.status = 200 /\ resp'.page = "index"
                  /\ resp'.msg = "you have been logged out"
                  /\ resp'.target.kind = "none"
    /\ (session = EmptySession /\ req'.handler # "login") =>
          session' = EmptySession
    /\ (session = EmptySession /\ req'.handler = "auth") =>
          /\ resp'.userinfo = "no" /\ resp'.verify = "no"
          /\ resp'.cookie = "keep" /\ resp'.token = EmptyJWT
          /\ proofCookie' = proofCookie /\ ~resp'.saved
    /\ \A u \in URLs \ Countable : ~LockedOut(session, u)
    /\ (session = EmptySession /\ req'.handler = "login" /\ req'.url \in Countable) =>
          /\ resp'.saved /\ session'[req'.url] = IntV(1)
          /\ resp'.target.kind = "provider" /\ redirected
    /\ req'.handler # "none" => sessMaxAge' > 0

\* C21 as stated: /logout clears the proof cookie and expires the whole
\* login-attempt session (nonce, requested URL and every failure counter),
\* then answers 302 to the `url` parameter if there is one and renders a page
\* otherwise; from then until the next /login every callback is refused
\* before the provider is asked and issues no token, and a /login for a
\* destination that was locked out is redirected (302) to the provider again.
\* When /logout has returned the store's max-age is positive again, so
\* sessions saved by later requests are not saved as expired.
C21_Original ==
    [][ LogoutEffects(resp'.status = 302 /\ resp'.page = "redirect") ]_vars

\* C21 as amended: the two redirects are 302 answers unless testing mode is
\* on; in testing mode redirect302 renders a page (HTTP 200) that names the
\* URL instead.  The callback after /logout gets the "Invalid session state"
\* page, or HTTP 500 when the session cookie it sends cannot be decoded.  The
\* max-age /logout leaves is 300 seconds whatever it was before, and no other
\* handler changes it.
C21_LogoutExpiresSession ==
    [][ /\ LogoutEffects(IF cfg.Testing
                         THEN /\ resp'.status = 200 /\ resp'.page = "index"
                              /\ resp'.msg = "302 redirect to"
                         ELSE resp'.status = 302 /\ resp'.page = "redirect")
        /\ (session = EmptySession /\ req'.handler = "auth") =>
              IF req'.badSession
              THEN resp'.status = 500 /\ resp'.page = "error"
              ELSE /\ resp'.status = 200 /\ resp'.page = "index"
                   /\ resp'.msg = "Invalid session state"
        /\ sessMaxAge' = (IF req'.handler = "logout" THEN 300 ELSE sessMaxAge) ]_vars

\* A destination was locked out, /logout was served, and the /login for that
\* destination right after it is redirected to the provider.
C21_Witness ==
    /\ req.handler = "login" /\ req.url = URL1 /\ URL1 \in lockedAtLogout
    /\ resp.status = 302 /\ resp.target.kind = "provider"
    /\ session[URL1] = IntV(1) /\ logins[URL1] = 1
    /\ proofCookie = EmptyJWT /\ sessMaxAge = 300
====
